---- MODULE Spec2Model ----
(***************************************************************************)
(* Model of the maintenance dashboard script app_backup.py, of the machine *)
(* detail page pages/machine.py and of the estimators of utils.py.         *)
(* Streamlit re-executes the whole script of the page on every user        *)
(* interaction, so every action below is one interaction followed by one   *)
(* complete run of the script.  Timestamps are whole hours since midnight  *)
(* of day 0; a nullable cell is a sequence of length 0 (NaN / NaT) or 1 (a *)
(* value); a mean is the exact fraction <<sum, count>>.                    *)
(***************************************************************************)
EXTENDS Integers, Sequences, FiniteSets, TLC

VARIABLES master_df, uploaded_file, start_date, end_date,
          session_df, pc, rendered, df, mtbf_df, mttr_value,
          sort_by, machine_tiles,
          page, selected_machine_id, temp_data_csv,
          machine_pc, machine_df, total_breakdowns,
          call, result

\* The widgets and outputs of the dashboard's first tab.
dashVars == <<master_df, uploaded_file, start_date, end_date,
              session_df, pc, rendered, df, mtbf_df, mttr_value>>
\* The Machine Overview tab.
tileVars == <<sort_by, machine_tiles>>
\* The page shown, the hand-off to the detail page and what that page shows.
pageVars == <<page, selected_machine_id, temp_data_csv,
              machine_pc, machine_df, total_breakdowns>>
\* A call of one of the estimators of utils.py and what it returned.
utilVars == <<call, result>>

vars == <<dashVars, tileVars, pageVars, utilVars>>

\* ------------------------------------------------------------ bounds
\* Largest number of breakdown events in the uploaded spreadsheet.
MaxEvents == 3
\* Largest number of rows of the sensor table handed to an estimator.
MaxRows == 3

\* ------------------------------------------------------------ cells
NaT == <<>>
NaN == <<>>
Some(v) == <<v>>
IsNull(c) == c = <<>>
NotNull(c) == c # <<>>
Val(c) == c[1]

RECURSIVE SumSeq(_)
SumSeq(s) == IF s = <<>> THEN 0 ELSE Head(s) + SumSeq(Tail(s))

MapRows(F(_), s) == [i \in 1..Len(s) |-> F(s[i])]

RECURSIVE FlatMapRows(_, _)
FlatMapRows(F(_), s) == IF s = <<>> THEN <<>> ELSE F(Head(s)) \o FlatMapRows(F, Tail(s))

Range(s) == {s[i] : i \in 1..Len(s)}

\* ------------------------------------------------------------ inputs
EquipmentIds == {1, 2}
Days == {0, 1}
DateRanges == {r \in Days \X Days : r[1] <= r[2]}

DateCols == {"malfunct. start", "start malfn (t)", "malfunct.end", "malfunction end"}
RequiredCols == DateCols \cup {"equipment"}
OptionalCols == {"breakdown dur.", "plant section", "equipment category", "object type"}
AllCols == RequiredCols \cup OptionalCols

\* The split date / time cells of one spreadsheet row: a day number and an
\* hour of the day, each possibly blank or garbage (the empty cell).
EventShapes ==
    { [sdate |-> Some(0), stime |-> Some(0),  edate |-> Some(0), etime |-> Some(5)],
      [sdate |-> Some(0), stime |-> Some(10), edate |-> Some(0), etime |-> Some(12)],
      [sdate |-> Some(1), stime |-> Some(6),  edate |-> Some(1), etime |-> Some(16)],
      [sdate |-> Some(0), stime |-> NaN,      edate |-> Some(0), etime |-> Some(5)],
      [sdate |-> Some(1), stime |-> Some(6),  edate |-> NaN,     etime |-> Some(16)],
      [sdate |-> Some(0), stime |-> Some(10), edate |-> Some(0), etime |-> Some(10)] }

RawEvents == {[equipment |-> q, cells |-> c] : q \in EquipmentIds, c \in EventShapes}

\* A sheet of raw events; every row carries its spreadsheet row number.
Sheet(f) == [i \in 1..Len(f) |->
               [row |-> i, equipment |-> f[i].equipment,
                sdate |-> f[i].cells.sdate, stime |-> f[i].cells.stime,
                edate |-> f[i].cells.edate, etime |-> f[i].cells.etime]]

MasterCols == {"equipment", "description"}
FullMaster == [loaded |-> TRUE, cols |-> MasterCols,
               rows |-> <<[equipment |-> 1, description |-> "pump"],
                          [equipment |-> 2, description |-> "fan"]>>]
\* Master tables of the join slice: failed load, empty, partial, duplicated ids.
Masters ==
    { [loaded |-> FALSE, cols |-> {}, rows |-> <<>>],
      [loaded |-> TRUE, cols |-> MasterCols, rows |-> <<>>],
      [loaded |-> TRUE, cols |-> MasterCols,
       rows |-> <<[equipment |-> 1, description |-> "pump"]>>],
      [loaded |-> TRUE, cols |-> MasterCols \cup {"plant section"},
       rows |-> <<[equipment |-> 2, description |-> "fan"]>>],
      [loaded |-> TRUE, cols |-> MasterCols,
       rows |-> <<[equipment |-> 1, description |-> "pump"],
                  [equipment |-> 1, description |-> "fan"]>>],
      FullMaster }

ColumnSets == {RequiredCols \cup o : o \in SUBSET OptionalCols}
              \cup {r \cup OptionalCols : r \in SUBSET RequiredCols}

NoFile == [rows |-> <<>>, cols |-> {}, present |-> FALSE]
NoDf == [rows |-> <<>>, cols |-> {}, present |-> FALSE]

\* ------------------------------------------------------------ parsing
\* pd.to_datetime(date.astype(str) + ' ' + time, errors='coerce')
to_datetime(date, time) ==
    IF IsNull(date) \/ IsNull(time) THEN NaT
    ELSE Some(Val(date) * 24 + Val(time))

ParseRow(r) ==
    [row |-> r.row, equipment |-> r.equipment,
     start |-> to_datetime(r.sdate, r.stime),
     end |-> to_datetime(r.edate, r.etime)]

ParseDates(rows) == MapRows(ParseRow, rows)

\* Timestamp.date(): the day a timestamp falls on.
DateOf(ts) == ts \div 24

\* Variant: the end of the range is exclusive.
InRangeExclusiveEnd(r, s, e) ==
    /\ NotNull(r.start)
    /\ DateOf(Val(r.start)) >= s
    /\ DateOf(Val(r.start)) < e

\* Variant: the range test is written by exclusion, which NaT passes.
InRangeKeepNaT(r, s, e) ==
    \/ IsNull(r.start)
    \/ (DateOf(Val(r.start)) >= s /\ DateOf(Val(r.start)) <= e)

\* (start.dt.date >= start_date) & (start.dt.date <= end_date); NaT compares False.
InRange(r, s, e) ==
    /\ NotNull(r.start)
    /\ DateOf(Val(r.start)) >= s
    /\ DateOf(Val(r.start)) <= e

FilterByDate(rows, s, e) == SelectSeq(rows, LAMBDA r : InRange(r, s, e))

\* ------------------------------------------------------------ master join
\* df.merge(master_df, how='left', on='equipment'): one output row per matching
\* master row, in the event's place; an event without a match is kept once
\* with NaN master attributes.
MasterMatches(r, mrows) == SelectSeq(mrows, LAMBDA m : m.equipment = r.equipment)

JoinRow(r, m) ==
    [row |-> r.row, equipment |-> r.equipment, start |-> r.start, end |-> r.end,
     description |-> m]

\* Variant: an inner join, which loses events without a master record.
InnerJoinRow(r, mrows) ==
    MapRows(LAMBDA m : JoinRow(r, Some(m.description)), MasterMatches(r, mrows))

LeftJoinRow(r, mrows) ==
    IF MasterMatches(r, mrows) = <<>>
    THEN <<JoinRow(r, NaN)>>
    ELSE MapRows(LAMBDA m : JoinRow(r, Some(m.description)), MasterMatches(r, mrows))

MergeMaster(rows, mrows) == FlatMapRows(LAMBDA r : LeftJoinRow(r, mrows), rows)

\* Columns after the merge: a non-key column present on both sides is renamed
\* with _x / _y suffixes, so its plain name is no longer a column.
MergeCols(lc, rc) == (lc \cup rc) \ ((lc \cap rc) \ {"equipment"})

\* ------------------------------------------------------------ compute times
\* (a - b).dt.total_seconds() / 3600; NaT on either side gives NaN.
HoursBetween(a, b) ==
    IF IsNull(a) \/ IsNull(b) THEN NaN
    ELSE Some(((Val(a) - Val(b)) * 3600) \div 3600)

WithRepair(r) ==
    [row |-> r.row, equipment |-> r.equipment, start |-> r.start, end |-> r.end,
     description |-> r.description, repair |-> HoursBetween(r.end, r.start)]

ComputeTimes(rows) == MapRows(WithRepair, rows)

\* Variant: zero-length repairs are kept.
RetainedNonNegative(r) == NotNull(r.repair) /\ Val(r.repair) >= 0

\* df[df['repair time (hrs)'] > 0]; NaN > 0 is False.
Retained(r) == NotNull(r.repair) /\ Val(r.repair) > 0

DropInvalid(rows) == SelectSeq(rows, Retained)

\* ------------------------------------------------------------ sort, shift
\* Order of sort_values(by=["equipment", "malfunction start"]): NaT sorts last.
RowLess(a, b) ==
    \/ a.equipment < b.equipment
    \/ /\ a.equipment = b.equipment
       /\ NotNull(a.start)
       /\ (IsNull(b.start) \/ Val(a.start) < Val(b.start))

RECURSIVE InsertSorted(_, _)
InsertSorted(x, s) ==
    IF s = <<>> THEN <<x>>
    ELSE IF RowLess(x, Head(s)) THEN <<x>> \o s
    ELSE <<Head(s)>> \o InsertSorted(x, Tail(s))

RECURSIVE SortAcc(_, _)
SortAcc(rows, acc) ==
    IF rows = <<>> THEN acc ELSE SortAcc(Tail(rows), InsertSorted(Head(rows), acc))

\* The multi-column sort is stable: ties keep their order in the table.
SortValues(rows) == SortAcc(rows, <<>>)

\* groupby("equipment")["malfunction end"].shift(1): the end of the previous
\* row of the same equipment in table order, NaT for the group's first row.
PrevIdx(rows, i) == {j \in 1..(i - 1) : rows[j].equipment = rows[i].equipment}

\* Variant: shift(1) without the group-by, the end of the row above.
PrevEndUngrouped(rows, i) == IF i = 1 THEN NaT ELSE rows[i - 1].end

PrevEnd(rows, i) ==
    IF PrevIdx(rows, i) = {} THEN NaT
    ELSE rows[CHOOSE j \in PrevIdx(rows, i) : \A k \in PrevIdx(rows, i) : k <= j].end

WithUptime(rows) ==
    [i \in 1..Len(rows) |->
       LET prev == PrevEnd(rows, i)
       IN  [row |-> rows[i].row, equipment |-> rows[i].equipment,
            start |-> rows[i].start, end |-> rows[i].end,
            description |-> rows[i].description, repair |-> rows[i].repair,
            prev_end |-> prev,
            uptime |-> HoursBetween(rows[i].start, prev)]]

\* ------------------------------------------------------------ MTBF, MTTR
\* Variant: NaN entries count as zero gaps.
MeanNaNAsZero(cells) ==
    IF cells = <<>> THEN NaN
    ELSE <<SumSeq(MapRows(Val, SelectSeq(cells, NotNull))), Len(cells)>>

\* Series.mean(): NaN entries are skipped; the mean of no entries is NaN.
Mean(cells) ==
    LET vals == SelectSeq(cells, NotNull)
    IN  IF vals = <<>> THEN NaN
        ELSE <<SumSeq(MapRows(Val, vals)), Len(vals)>>

GroupRows(rows, q) == SelectSeq(rows, LAMBDA r : r.equipment = q)

\* groupby("equipment")[uptime].mean().reset_index(): one row per equipment
\* of the table, keyed by the equipment id.
MtbfDf(rows) ==
    [q \in {r.equipment : r \in Range(rows)} |->
       Mean(MapRows(LAMBDA r : r.uptime, GroupRows(rows, q)))]

\* df.merge(mtbf_df, on="equipment", how="left")
MergeMtbf(rows, m) ==
    [i \in 1..Len(rows) |->
       [row |-> rows[i].row, equipment |-> rows[i].equipment,
        start |-> rows[i].start, end |-> rows[i].end,
        description |-> rows[i].description, repair |-> rows[i].repair,
        prev_end |-> rows[i].prev_end, uptime |-> rows[i].uptime,
        mtbf |-> IF rows[i].equipment \in DOMAIN m THEN m[rows[i].equipment] ELSE NaN]]

\* total_repair_time / total_repairs if total_repairs > 0 else 0
total_repairs(rows) == Len(SelectSeq(rows, LAMBDA r : NotNull(r.repair)))
total_repair_time(rows) ==
    SumSeq(MapRows(LAMBDA r : Val(r.repair), SelectSeq(rows, LAMBDA r : NotNull(r.repair))))

\* Variant: the division is not guarded.
MTTRUnguarded(rows) == <<total_repair_time(rows), total_repairs(rows)>>

MTTR(rows) ==
    IF total_repairs(rows) > 0
    THEN <<total_repair_time(rows), total_repairs(rows)>>
    ELSE <<0, 1>>

\* Variant: invalid events are dropped after the gaps are computed.
UptimesDropLast(rows) == DropInvalid(WithUptime(SortValues(ComputeTimes(rows))))

\* Lines 94-101 in order: repair time, drop, sort, previous end, uptime.
Uptimes(rows) == WithUptime(SortValues(DropInvalid(ComputeTimes(rows))))

\* Lines 94-107: the table every metric, chart and tile is computed from.
DeriveMetrics(rows) == LET t == Uptimes(rows) IN MergeMtbf(t, MtbfDf(t))

\* ------------------------------------------------------------ rendering
HeaderElems(cols) ==
    {"caption", "metric_total_machines", "metric_breakdown_machines",
     "metric_total_breakdowns", "metric_mttr"}
    \cup (IF "breakdown dur." \in cols
          THEN {"metric_avg_duration", "metric_total_downtime"}
          ELSE {"metric_avg_duration_na", "metric_total_downtime_na"})

ChartElems(cols, m) ==
    {"chart_status", "chart_repeated", "chart_repair_time", "chart_mttr"}
    \cup (IF "breakdown dur." \in cols THEN {"chart_downtime"} ELSE {})
    \cup (IF DOMAIN m # {} THEN {"chart_mtbf"} ELSE {})

SectionElems == {"table_section", "chart_section"}
CategoryElems == {"table_category"}
TypeElems == {"table_type", "chart_type"}
TailElems == {"chart_reasons", "machine_tiles"}

\* The named aggregation of each group-by block sums 'breakdown dur.' without
\* testing for the column.
AggFails(cols, key) == key \in cols /\ "breakdown dur." \notin cols

GroupElems(cols, key, elems) == IF key \in cols THEN elems ELSE {}

\* Lines 115-367: what a run renders from the metric table, and where it ends.
Render(cols, table, m) ==
    LET R0 == HeaderElems(cols)
        R1 == R0 \cup ChartElems(cols, m)
        R2 == R1 \cup GroupElems(cols, "plant section", SectionElems)
        R3 == R2 \cup GroupElems(cols, "equipment category", CategoryElems)
        R4 == R3 \cup GroupElems(cols, "object type", TypeElems)
    IN  IF table = <<>>
        THEN [pc |-> "exc_status", rendered |-> R0 \cup {"exception"}]
        ELSE IF AggFails(cols, "plant section")
        THEN [pc |-> "exc_section", rendered |-> R1 \cup {"exception"}]
        ELSE IF AggFails(cols, "equipment category")
        THEN [pc |-> "exc_category", rendered |-> R2 \cup {"exception"}]
        ELSE IF AggFails(cols, "object type")
        THEN [pc |-> "exc_type", rendered |-> R3 \cup {"exception"}]
        ELSE [pc |-> "done", rendered |-> R4 \cup TailElems]

\* ------------------------------------------------------------ machine tiles
\* The six entries of the 'Sort by' select box, as key and direction.
SortKeys == {"Health", "Breakdowns", "MTBF"}
Directions == {"High to Low", "Low to High"}
SortOptions == SortKeys \X Directions
\* A select box starts on its first entry.
DefaultSort == <<"Health", "High to Low">>

\* Exact comparison of two fractions with positive denominators.
FracLess(a, b) == a[1] * b[2] < b[1] * a[2]

\* df["mtbf (hrs)"].max(): NaN entries are skipped; NaN when there is none.
max_mtbf(rows) ==
    LET vals == {rows[i].mtbf : i \in {j \in 1..Len(rows) : NotNull(rows[j].mtbf)}}
    IN  IF vals = {} THEN NaN
        ELSE CHOOSE v \in vals : \A w \in vals : ~FracLess(v, w)

\* Series.unique(): the distinct equipment ids in order of first appearance.
RECURSIVE unique(_)
unique(rows) ==
    IF rows = <<>> THEN <<>>
    ELSE <<Head(rows).equipment>>
         \o unique(SelectSeq(Tail(rows), LAMBDA r : r.equipment # Head(rows).equipment))

\* Variant: the sign of the largest MTBF is not tested.
ScoredAnyMax(mtbf_val, mx) == NotNull(mtbf_val) /\ NotNull(mx)

\* pd.notna(mtbf_val) and pd.notna(max_mtbf) and max_mtbf > 0
Scored(mtbf_val, mx) == NotNull(mtbf_val) /\ NotNull(mx) /\ mx[1] > 0

\* (mtbf_val / max_mtbf) * 100 as an exact fraction; max_mtbf is positive.
Pct(mtbf_val, mx) == <<mtbf_val[1] * mx[2] * 100, mtbf_val[2] * mx[1]>>

\* int(x): truncation towards zero.
IntOf(x) == IF x[1] >= 0 THEN x[1] \div x[2] ELSE -((-x[1]) \div x[2])

\* "Good" if pct > 80 else "Fair" if pct >= 50 else "Bad"
TagOf(pct) ==
    IF pct[1] > 80 * pct[2] THEN "Good"
    ELSE IF pct[1] >= 50 * pct[2] THEN "Fair"
    ELSE "Bad"

\* int(pct), shown as f"{int(pct)}%".
HealthScore(pct) == IntOf(pct)

\* One entry of machine_tiles.  health_percent is the text "<n>%" held as the
\* cell <<n>>, or the empty cell for "N/A"; eta_text is "N/A" (the empty cell)
\* or the MTBF it prints; the 'mtbf' entry is float(mtbf_val), which is NaN and
\* not None for a machine without gaps, so the -1 fallback is never taken.
Tile(rows, machine_id, mx) ==
    LET mdf == GroupRows(rows, machine_id)
        mtbf_val == mdf[1].mtbf
        scored == Scored(mtbf_val, mx)
    IN  [machine_id |-> machine_id,
         health_percent |-> IF scored THEN Some(HealthScore(Pct(mtbf_val, mx))) ELSE NaN,
         health_score |-> IF scored THEN HealthScore(Pct(mtbf_val, mx)) ELSE -1,
         tag |-> IF scored THEN TagOf(Pct(mtbf_val, mx)) ELSE "No Score",
         failures |-> Len(mdf),
         mtbf |-> mtbf_val,
         eta_text |-> IF scored THEN mtbf_val ELSE NaN]

\* Lines 315-348, with an empty search box: one tile per machine of df.
MachineTiles(rows) ==
    LET ids == unique(rows)
        mx == max_mtbf(rows)
    IN  [i \in 1..Len(ids) |-> Tile(rows, ids[i], mx)]

\* style_machine_tile: the width of the health bar; "N/A" does not parse and
\* falls back to a full grey bar.
BarScore(health_percent) == IF NotNull(health_percent) THEN Val(health_percent) ELSE 100

\* ------------------------------------------------------------ tile order
\* The value sorted() compares for a tile, as a nullable fraction.
SortKey(tile, key) ==
    IF key = "Health" THEN <<tile.health_score, 1>>
    ELSE IF key = "Breakdowns" THEN <<tile.failures, 1>>
    ELSE tile.mtbf

\* x < y on floats: False whenever either side is NaN.
KeyLess(a, b) == NotNull(a) /\ NotNull(b) /\ FracLess(a, b)

Reversed(s) == [i \in 1..Len(s) |-> s[Len(s) + 1 - i]]

\* list.sort on a short list: the leading run is detected (and reversed when
\* strictly descending), the other elements are placed by binary insertion.
RECURSIVE RunEnd(_, _, _, _)
RunEnd(s, key, i, desc) ==
    IF i = Len(s) THEN i
    ELSE LET lt == KeyLess(SortKey(s[i + 1], key), SortKey(s[i], key))
         IN  IF desc = lt THEN RunEnd(s, key, i + 1, desc) ELSE i

count_run(s, key) ==
    IF Len(s) <= 1 THEN [n |-> Len(s), descending |-> FALSE]
    ELSE LET desc == KeyLess(SortKey(s[2], key), SortKey(s[1], key))
         IN  [n |-> RunEnd(s, key, 2, desc), descending |-> desc]

RECURSIVE InsertionPoint(_, _, _, _, _)
InsertionPoint(s, key, pivot, l, r) ==
    IF l >= r THEN l
    ELSE LET p == l + ((r - l) \div 2)
         IN  IF KeyLess(SortKey(pivot, key), SortKey(s[p], key))
             THEN InsertionPoint(s, key, pivot, l, p)
             ELSE InsertionPoint(s, key, pivot, p + 1, r)

RECURSIVE binarysort(_, _, _)
binarysort(done, rest, key) ==
    IF rest = <<>> THEN done
    ELSE LET l == InsertionPoint(done, key, Head(rest), 1, Len(done) + 1)
         IN  binarysort(SubSeq(done, 1, l - 1) \o <<Head(rest)>>
                        \o SubSeq(done, l, Len(done)), Tail(rest), key)

\* sorted(machine_tiles, key=..., reverse=reverse): a reversed sort reverses
\* the list, sorts it ascending and reverses the outcome.
sorted(s, key, reverse) ==
    LET a == IF reverse THEN Reversed(s) ELSE s
        run == count_run(a, key)
        head == SubSeq(a, 1, run.n)
        out == binarysort(IF run.descending THEN Reversed(head) ELSE head,
                          SubSeq(a, run.n + 1, Len(a)), key)
    IN  IF reverse THEN Reversed(out) ELSE out

\* reverse = "Low to High" not in sort_by
ReverseOf(sb) == sb[2] # "Low to High"

\* Lines 297-355: the tiles of the Machine Overview tab in display order; the
\* tab is reached only by a run that completed the first tab.
Tab2(where, rows, sb) ==
    IF where = "done" THEN sorted(MachineTiles(rows), sb[1], ReverseOf(sb)) ELSE <<>>

\* ------------------------------------------------------------ the script
MasterElems(master) == IF master.loaded THEN {} ELSE {"error_master"}

\* Variant: only the start columns are looked up inside the handler.
ParseFailsStartOnly(cols) == ~({"malfunct. start", "start malfn (t)"} \subseteq cols)

\* The KeyError handler of the date parsing covers these columns only.
ParseFails(cols) == ~(DateCols \subseteq cols)

\* merge(..., on='equipment') raises when the key is missing on either side,
\* and master_df is unbound when the master file could not be loaded.
MergeFails(cols, master) ==
    \/ ~master.loaded
    \/ "equipment" \notin cols
    \/ "equipment" \notin master.cols

Cached(up, s, e) ==
    [rows |-> FilterByDate(ParseDates(up.rows), s, e),
     cols |-> up.cols \cup {"malfunction start"},
     present |-> TRUE]

Halt(where, elems, cache) ==
    [pc |-> where, rendered |-> elems, session_df |-> cache,
     df |-> <<>>, mtbf_df |-> <<>>, mttr_value |-> NaN]

\* One execution of the script, top to bottom.
Script(up, master, s, e, old) ==
    IF ~up.present
    THEN Halt("no_file", MasterElems(master) \cup {"info_upload"}, old)
    ELSE IF ParseFails(up.cols)
    THEN Halt("stop_missing_column",
              MasterElems(master) \cup {"error_missing_column"}, old)
    ELSE IF MergeFails(up.cols, master)
    THEN Halt("exc_merge", MasterElems(master) \cup {"exception"}, Cached(up, s, e))
    ELSE LET cache == Cached(up, s, e)
             cols == MergeCols(cache.cols, master.cols)
             joined == MergeMaster(cache.rows, master.rows)
             table == DeriveMetrics(joined)
             m == MtbfDf(table)
             out == Render(cols, table, m)
         IN  [pc |-> out.pc, rendered |-> out.rendered, session_df |-> cache,
              df |-> table, mtbf_df |-> m, mttr_value |-> MTTR(table)]

\* ------------------------------------------------------------ behaviour
Run(up, s, e, sb) ==
    LET r == Script(up, master_df, s, e, session_df)
    IN  /\ pc' = r.pc
        /\ rendered' = r.rendered
        /\ session_df' = r.session_df
        /\ df' = r.df
        /\ mtbf_df' = r.mtbf_df
        /\ mttr_value' = r.mttr_value
        /\ machine_tiles' = Tab2(r.pc, r.df, sb)

\* The spreadsheets explored: sheets of up to MaxEvents rows with every column
\* against the complete master, and sheets of at most one row against every
\* master table and with every column set.
Explored(k, cols, master) ==
    \/ master = FullMaster /\ cols = AllCols
    \/ k <= 1 /\ (master = FullMaster \/ cols = AllCols)

DefaultRange == <<0, 1>>

NoCsv == [rows |-> <<>>, present |-> FALSE]
NoCall == [fn |-> "none", cols |-> {}, rows |-> <<>>]
NoResult == [status |-> "none", cols |-> {}, rows |-> <<>>]

\* A fresh session: no file in the uploader, the widgets on their defaults,
\* the dashboard shown, no machine selected, no estimator called.
Start ==
    /\ uploaded_file = NoFile
    /\ start_date = DefaultRange[1]
    /\ end_date = DefaultRange[2]
    /\ session_df = NoDf
    /\ pc = "no_file"
    /\ rendered = MasterElems(master_df) \cup {"info_upload"}
    /\ df = <<>>
    /\ mtbf_df = <<>>
    /\ mttr_value = NaN
    /\ sort_by = DefaultSort
    /\ machine_tiles = <<>>
    /\ page = "dashboard"
    /\ selected_machine_id = NaN
    /\ machine_pc = "idle"
    /\ machine_df = <<>>
    /\ total_breakdowns = NaN
    /\ result = NoResult

\* The first run of a session: the master table is read, no file is uploaded.
Init ==
    /\ master_df \in Masters
    /\ temp_data_csv = NoCsv
    /\ call = NoCall
    /\ Start

\* The user drops a spreadsheet of at most n rows, drawn from events, on the
\* uploader.
Upload(n, events) ==
    /\ page = "dashboard"
    /\ ~uploaded_file.present
    /\ \E k \in 0..n, c \in ColumnSets :
        /\ Explored(k, c, master_df)
        /\ \E f \in [1..k -> events] :
            /\ uploaded_file' = [rows |-> Sheet(f), cols |-> c, present |-> TRUE]
            /\ UNCHANGED <<master_df, start_date, end_date, sort_by>>
            /\ UNCHANGED <<pageVars, utilVars>>
            /\ Run(uploaded_file', start_date, end_date, sort_by)

UploadFile == Upload(MaxEvents, RawEvents)

\* The user picks another timeframe in the sidebar.
SelectTimeframe ==
    /\ page = "dashboard"
    /\ \E r \in DateRanges :
        /\ r # <<start_date, end_date>>
        /\ start_date' = r[1]
        /\ end_date' = r[2]
        /\ UNCHANGED <<master_df, uploaded_file, sort_by>>
        /\ UNCHANGED <<pageVars, utilVars>>
        /\ Run(uploaded_file, r[1], r[2], sort_by)

\* Any other widget interaction (toggle, select box, search box): a rerun.
Rerun ==
    /\ page = "dashboard"
    /\ uploaded_file.present
    /\ UNCHANGED <<master_df, uploaded_file, start_date, end_date, sort_by>>
    /\ UNCHANGED <<pageVars, utilVars>>
    /\ Run(uploaded_file, start_date, end_date, sort_by)

\* ------------------------------------------------------------ detail page
\* The intermediate CSV of the working directory, when there is one.  Its
\* 'malfunction start' cells are text: a day and an hour, or garbage (empty).
SampleCsv ==
    [rows |-> <<[row |-> 1, equipment |-> 1, start |-> <<0, 10>>],
                [row |-> 2, equipment |-> 2, start |-> <<>>],
                [row |-> 3, equipment |-> 1, start |-> <<1, 6>>]>>,
     present |-> TRUE]
CsvFiles == {NoCsv, SampleCsv}

\* pd.to_datetime(df_raw["malfunction start"], errors="coerce")
read_csv_start(text) == IF text = <<>> THEN NaT ELSE Some(text[1] * 24 + text[2])

\* Lines 14-18: the table read from temp_data.csv; only the start column is
\* parsed, the page reads no end column.
read_csv(csv) ==
    [rows |-> [i \in 1..Len(csv.rows) |->
                 [row |-> csv.rows[i].row, equipment |-> csv.rows[i].equipment,
                  start |-> read_csv_start(csv.rows[i].start), end |-> NaT]],
     cols |-> {"equipment", "malfunction start"},
     present |-> TRUE]

\* `if machine_id:` no selection, and an id that is zero, both count as none.
Truthy(machine_id) == NotNull(machine_id) /\ Val(machine_id) # 0

\* Variant: the machine filter is skipped.
MachineFilterAll(data, machine_id) == data.rows

\* Lines 29-32: the events of the selected machine, or all of them.
MachineFilter(data, machine_id) ==
    IF Truthy(machine_id)
    THEN SelectSeq(data.rows, LAMBDA r : r.equipment = Val(machine_id))
    ELSE data.rows

\* Lines 76-86: the default timeframe runs from the first to the last start
\* date of the machine's events; rows without a start compare False.  Every
\* table the page gets to show holds at least one parsed start.
Starts(rows) == {Val(rows[i].start) : i \in {j \in 1..Len(rows) : NotNull(rows[j].start)}}
min_date(rows) == DateOf(CHOOSE t \in Starts(rows) : \A u \in Starts(rows) : t <= u)
max_date(rows) == DateOf(CHOOSE t \in Starts(rows) : \A u \in Starts(rows) : u <= t)
InTimeframe(r, s, e) ==
    /\ NotNull(r.start)
    /\ DateOf(Val(r.start)) >= s
    /\ DateOf(Val(r.start)) <= e
DefaultFiltered(rows) ==
    IF Starts(rows) = {} THEN <<>>
    ELSE SelectSeq(rows, LAMBDA r : InTimeframe(r, min_date(rows), max_date(rows)))

MachineHalt(where, cache, rows) ==
    [pc |-> where, session_df |-> cache, machine_df |-> rows, total_breakdowns |-> NaN]

\* Variant: the page reloads the CSV whenever there is one.
MachineDataReload(cache, csv) == IF csv.present THEN read_csv(csv) ELSE cache

\* Lines 12-23: the cache when there is one, else the CSV written into it.
MachineData(cache, csv) == IF cache.present THEN cache ELSE read_csv(csv)

\* One execution of pages/machine.py down to the 'Total Breakdowns' metric.
MachinePage(cache, machine_id, csv) ==
    IF ~cache.present /\ ~csv.present
    THEN MachineHalt("stop_no_data", cache, <<>>)
    ELSE LET data == MachineData(cache, csv)
             rows == MachineFilter(data, machine_id)
         IN  IF rows = <<>>
             THEN MachineHalt("stop_empty", data, rows)
             ELSE [pc |-> "done", session_df |-> data, machine_df |-> rows,
                   total_breakdowns |-> Some(Len(DefaultFiltered(rows)))]

MachineRun(cache, machine_id) ==
    LET m == MachinePage(cache, machine_id, temp_data_csv)
    IN  /\ session_df' = m.session_df
        /\ machine_pc' = m.pc
        /\ machine_df' = m.machine_df
        /\ total_breakdowns' = m.total_breakdowns

\* The user presses 'View Details' on a tile: the dashboard script runs up to
\* the pressed button, stores the tile's machine id and switches pages.
ViewDetails ==
    /\ page = "dashboard"
    /\ \E i \in 1..Len(machine_tiles) :
        LET r == Script(uploaded_file, master_df, start_date, end_date, session_df)
            tiles == Tab2(r.pc, r.df, sort_by)
        IN  /\ selected_machine_id' = Some(tiles[i].machine_id)
            /\ page' = "machine"
            /\ MachineRun(r.session_df, selected_machine_id')
            /\ UNCHANGED <<master_df, uploaded_file, start_date, end_date,
                           pc, rendered, df, mtbf_df, mttr_value>>
            /\ UNCHANGED <<tileVars, temp_data_csv, utilVars>>

\* The user opens the detail page from the page list of the sidebar.
OpenMachinePage ==
    /\ page = "dashboard"
    /\ page' = "machine"
    /\ MachineRun(session_df, selected_machine_id)
    /\ UNCHANGED <<master_df, uploaded_file, start_date, end_date,
                   pc, rendered, df, mtbf_df, mttr_value>>
    /\ UNCHANGED <<tileVars, selected_machine_id, temp_data_csv, utilVars>>

\* A widget of the detail page is used: the page runs again.
RerunMachinePage ==
    /\ page = "machine"
    /\ MachineRun(session_df, selected_machine_id)
    /\ UNCHANGED <<master_df, uploaded_file, start_date, end_date,
                   pc, rendered, df, mtbf_df, mttr_value>>
    /\ UNCHANGED <<tileVars, page, selected_machine_id, temp_data_csv, utilVars>>

\* Sessions that use both pages, with short spreadsheets.
InitPages ==
    /\ master_df \in Masters
    /\ temp_data_csv \in CsvFiles
    /\ call = NoCall
    /\ Start

UploadShortFile == Upload(MaxEvents - 1, RawEvents)

NextPages ==
    \/ UploadShortFile
    \/ SelectTimeframe
    \/ ViewDetails
    \/ OpenMachinePage
    \/ RerunMachinePage

SpecPages == InitPages /\ [][NextPages]_vars

\* ------------------------------------------------------------ overview tab
\* The event shapes that survive the repair-time drop.
ValidShapes ==
    {c \in EventShapes :
        /\ NotNull(to_datetime(c.sdate, c.stime))
        /\ NotNull(to_datetime(c.edate, c.etime))
        /\ Val(to_datetime(c.edate, c.etime)) > Val(to_datetime(c.sdate, c.stime))}
\* The machines of the overview sessions: one more than the master table lists.
OverviewIds == EquipmentIds \cup {3}
RetainedEvents == {[equipment |-> q, cells |-> c] : q \in OverviewIds, c \in ValidShapes}

\* The overview sessions list the events of a sheet by equipment and start:
\* the tiles are computed after the table is sorted by these two columns.
EventRank(ev) == ev.equipment * 48 + Val(to_datetime(ev.cells.sdate, ev.cells.stime))
InSheetOrder(f) == \A i \in 1..(Len(f) - 1) : EventRank(f[i]) <= EventRank(f[i + 1])

\* The user picks another entry of the 'Sort by' select box.
SelectSort ==
    /\ page = "dashboard"
    /\ \E sb \in SortOptions :
        /\ sb # sort_by
        /\ sort_by' = sb
        /\ UNCHANGED <<master_df, uploaded_file, start_date, end_date>>
        /\ UNCHANGED <<pageVars, utilVars>>
        /\ Run(uploaded_file, start_date, end_date, sb)

\* Sessions on the Machine Overview tab: longer sheets of events that are all
\* retained, which may repeat or overlap, against the complete master table.
InitTiles ==
    /\ master_df = FullMaster
    /\ temp_data_csv = NoCsv
    /\ call = NoCall
    /\ Start

\* The user drops a spreadsheet of retained events on the uploader.
UploadRetainedFile ==
    /\ page = "dashboard"
    /\ ~uploaded_file.present
    /\ \E k \in 0..(MaxEvents + 1) :
        \E f \in [1..k -> RetainedEvents] :
            /\ InSheetOrder(f)
            /\ uploaded_file' = [rows |-> Sheet(f), cols |-> AllCols, present |-> TRUE]
            /\ UNCHANGED <<master_df, start_date, end_date, sort_by>>
            /\ UNCHANGED <<pageVars, utilVars>>
            /\ Run(uploaded_file', start_date, end_date, sort_by)

NextTiles == UploadRetainedFile \/ SelectSort

SpecTiles == InitTiles /\ [][NextTiles]_vars

\* ------------------------------------------------------------ estimators
\* rolling(window=10, ...)
RollingWindow == 10

\* The sensor table of a machine: an hourly timestamp, a failure flag and a
\* vibration reading (possibly missing) per row, with any of the columns absent.
SensorCols == {"timestamp", "failure", "vibration"}
SensorRows ==
    [timestamp : {Some(2), Some(30)}, failure : {Some(0), Some(1)},
     vibration : {NaN, Some(5), Some(20)}]
\* A row restricted to the columns of the table.
Project(r, cols) ==
    [timestamp |-> IF "timestamp" \in cols THEN r.timestamp ELSE NaN,
     failure |-> IF "failure" \in cols THEN r.failure ELSE NaN,
     vibration |-> IF "vibration" \in cols THEN r.vibration ELSE NaN]

\* df[df["failure"] == 1].index.tolist() after reset_index(drop=True)
FailureIndex(rows) == {i \in 1..Len(rows) : rows[i].failure = Some(1)}

\* Variant: the last of the later failures is taken.
LastFailure(failures, i) ==
    CHOOSE f \in failures : f > i /\ \A g \in failures : g <= f

\* future_failures[0]: the index list is ascending, so the nearest later one.
NextFailure(failures, i) ==
    CHOOSE f \in failures : f > i /\ \A g \in failures : g > i => f <= g

\* timestamp + timedelta(hours=eta)
PlusHours(ts, h) == IF IsNull(ts) THEN NaT ELSE Some(Val(ts) + h)

\* Lines 88-94: the two estimate cells of row i.
EtaRow(rows, i) ==
    LET failures == FailureIndex(rows)
        found == \E f \in failures : f > i
        eta == NextFailure(failures, i) - i
    IN  [timestamp |-> rows[i].timestamp, failure |-> rows[i].failure,
         vibration |-> rows[i].vibration,
         estimated_hours_to_failure |-> IF found THEN Some(eta) ELSE NaN,
         predicted_failure_time |->
             IF found THEN PlusHours(rows[i].timestamp, eta) ELSE NaN]

\* estimate_eta works on a copy: `caller` is the argument after the call.
estimate_eta(t) ==
    IF "failure" \notin t.cols \/ "timestamp" \notin t.cols
    THEN [caller |-> t, status |-> "returned", cols |-> t.cols, rows |-> t.rows]
    ELSE [caller |-> t, status |-> "returned",
          cols |-> t.cols \cup {"estimated_hours_to_failure", "predicted_failure_time"},
          rows |-> [i \in 1..Len(t.rows) |-> EtaRow(t.rows, i)]]

\* The caller hands a sensor table to estimate_eta.
CallEstimateEta ==
    /\ call.fn = "none"
    /\ LET out == estimate_eta([cols |-> call.cols, rows |-> call.rows])
       IN  /\ call' = [fn |-> "estimate_eta",
                       cols |-> out.caller.cols, rows |-> out.caller.rows]
           /\ result' = [status |-> out.status, cols |-> out.cols, rows |-> out.rows]
    /\ UNCHANGED <<dashVars, tileVars, pageVars>>

\* rolling(window=10, min_periods=1).mean(): the mean of the readings present
\* among the last RollingWindow rows up to row i, NaN when none is present.
WindowIdx(rows, i) ==
    {j \in 1..i : j > i - RollingWindow /\ NotNull(rows[j].vibration)}
RECURSIVE SumOver(_, _)
SumOver(rows, idx) ==
    IF idx = {} THEN 0
    ELSE LET j == CHOOSE k \in idx : TRUE
         IN  Val(rows[j].vibration) + SumOver(rows, idx \ {j})
RollingMean(rows, i) ==
    IF WindowIdx(rows, i) = {} THEN NaN
    ELSE <<SumOver(rows, WindowIdx(rows, i)), Cardinality(WindowIdx(rows, i))>>

\* x / 10 on a fraction.
DivTen(x) == IF IsNull(x) THEN NaN ELSE <<x[1], x[2] * 10>>

\* Series.clip(0, 1): NaN stays NaN.
Clip01(x) ==
    IF IsNull(x) THEN NaN
    ELSE IF x[1] < 0 THEN <<0, 1>>
    ELSE IF x[1] > x[2] THEN <<1, 1>>
    ELSE x

\* df[["timestamp", "failure_probability"]] raises KeyError when the table
\* has no 'timestamp' column.
SelectProbability(cols, rows) ==
    IF "timestamp" \notin cols
    THEN [status |-> "KeyError", cols |-> {}, rows |-> <<>>]
    ELSE [status |-> "returned", cols |-> {"timestamp", "failure_probability"},
          rows |-> rows]

\* estimate_failure_probability works on a copy: `caller` is the argument
\* after the call.
estimate_failure_probability(t) ==
    LET fallback == [i \in 1..Len(t.rows) |->
                       [timestamp |-> t.rows[i].timestamp,
                        failure_probability |-> <<0, 1>>]]
        rolled == [i \in 1..Len(t.rows) |->
                     [timestamp |-> t.rows[i].timestamp,
                      failure_probability |-> Clip01(DivTen(RollingMean(t.rows, i)))]]
        out == IF "vibration" \notin t.cols \/ "timestamp" \notin t.cols
               THEN SelectProbability(t.cols, fallback)
               ELSE SelectProbability(t.cols, rolled)
    IN  [caller |-> t, status |-> out.status, cols |-> out.cols, rows |-> out.rows]

\* The caller hands a sensor table to estimate_failure_probability.
CallEstimateFailureProbability ==
    /\ call.fn = "none"
    /\ LET out == estimate_failure_probability([cols |-> call.cols, rows |-> call.rows])
       IN  /\ call' = [fn |-> "estimate_failure_probability",
                       cols |-> out.caller.cols, rows |-> out.caller.rows]
           /\ result' = [status |-> out.status, cols |-> out.cols, rows |-> out.rows]
    /\ UNCHANGED <<dashVars, tileVars, pageVars>>

\* A caller holding a sensor table of at most MaxRows rows, before any call.
InitUtils ==
    /\ master_df = FullMaster
    /\ temp_data_csv = NoCsv
    /\ \E k \in 0..MaxRows, c \in SUBSET SensorCols :
        \E f \in [1..k -> SensorRows] :
            call = [fn |-> "none", cols |-> c,
                    rows |-> [i \in 1..k |-> Project(f[i], c)]]
    /\ Start

NextUtils == CallEstimateEta \/ CallEstimateFailureProbability

SpecUtils == InitUtils /\ [][NextUtils]_vars

Next == UploadFile \/ SelectTimeframe \/ Rerun

Spec == Init /\ [][Next]_vars

\* ------------------------------------------------------------ properties
\* The run got as far as the metric derivation (lines 94-112).
MetricsComputed == pc \in {"exc_status", "exc_section", "exc_category", "exc_type", "done"}

\* Equality of two fractions <<numerator, denominator>>.
RatEq(a, b) == a[1] * b[2] = b[1] * a[2]

\* The timestamp a spreadsheet row denotes, read off its cells.
RawStart(r) == Val(r.sdate) * 24 + Val(r.stime)
RawEnd(r) == Val(r.edate) * 24 + Val(r.etime)
RawStartOk(r) == NotNull(r.sdate) /\ NotNull(r.stime)
RawEndOk(r) == NotNull(r.edate) /\ NotNull(r.etime)
RawValid(r) == RawStartOk(r) /\ RawEndOk(r) /\ RawEnd(r) > RawStart(r)

\* C1: every row of the metric table has a repair time equal to its
\* malfunction end minus its malfunction start in hours, and that is > 0; no
\* row with a zero, negative or null repair time is in the table.
C1_RepairTimePositive ==
    MetricsComputed =>
        \A i \in 1..Len(df) :
            LET raw == uploaded_file.rows[df[i].row]
            IN  /\ RawStartOk(raw) /\ RawEndOk(raw)
                /\ df[i].start = Some(RawStart(raw))
                /\ df[i].end = Some(RawEnd(raw))
                /\ df[i].repair = Some(RawEnd(raw) - RawStart(raw))
                /\ Val(df[i].repair) > 0

\* C1 witness: a sheet with a valid event, a zero-length event and an event
\* with an unparseable end, all in range; only the valid one is in the table.
C1_Witness ==
    /\ pc = "done"
    /\ Len(df) = 1
    /\ Len(session_df.rows) = 3
    /\ \E r \in Range(session_df.rows) : IsNull(r.end)
    /\ \E r \in Range(session_df.rows) : NotNull(r.end) /\ Val(r.end) = Val(r.start)

\* C2: MTTR is the sum of the repair times of the retained events divided by
\* their number, and exactly 0 when none is retained; the denominator is never 0.
C2_MTTR ==
    MetricsComputed =>
        /\ mttr_value[2] > 0
        /\ IF df = <<>>
           THEN mttr_value = <<0, 1>>
           ELSE RatEq(mttr_value,
                      <<SumSeq([i \in 1..Len(df) |-> Val(df[i].end) - Val(df[i].start)]),
                        Len(df)>>)

\* C2 witness: three retained events with repair times 5, 2 and 10 hours.
C2_Witness ==
    /\ pc = "done"
    /\ Len(df) = 3
    /\ mttr_value = <<17, 3>>

\* C3: the MTBF of an equipment is the mean of the gaps of its retained events
\* other than its first, every row of the equipment carries that value, and
\* it is null for an equipment with exactly one retained event.
C3_MTBF ==
    MetricsComputed =>
        \A q \in {r.equipment : r \in Range(df)} :
            LET g == GroupRows(df, q)
                n == Len(g)
                gaps == [i \in 1..(n - 1) |-> Val(g[i + 1].start) - Val(g[i].end)]
            IN  /\ q \in DOMAIN mtbf_df
                /\ \A i \in 1..n : g[i].mtbf = mtbf_df[q]
                /\ IF n = 1 THEN mtbf_df[q] = NaN
                   ELSE /\ NotNull(mtbf_df[q])
                        /\ RatEq(mtbf_df[q], <<SumSeq(gaps), n - 1>>)
                /\ IsNull(g[1].uptime)
                /\ \A i \in 2..n : NotNull(g[i].uptime)

\* C3 witness: one equipment with two retained events (one gap of 5 hours)
\* and another with exactly one, whose MTBF is null.
C3_Witness ==
    /\ pc = "done"
    /\ Len(df) = 3
    /\ \E i \in 1..3 : df[i].mtbf = <<5, 1>>
    /\ \E i \in 1..3 : df[i].mtbf = NaN

\* The rows of the metric table are distinct events (no master id is repeated).
DistinctEvents == \A i, j \in 1..Len(df) : df[i].row = df[j].row => i = j

\* Event j comes before event i in start order (sheet order breaks ties).
Before(j, i) ==
    \/ Val(df[j].start) < Val(df[i].start)
    \/ Val(df[j].start) = Val(df[i].start) /\ df[j].row < df[i].row

Earlier(i) == {j \in 1..Len(df) : df[j].equipment = df[i].equipment /\ Before(j, i)}

Preceding(i) == CHOOSE j \in Earlier(i) : \A k \in Earlier(i) \ {j} : Before(k, j)

\* C4: the uptime of a retained event is its start minus the end of the
\* retained event of the same equipment that immediately precedes it in start
\* order, and null for the earliest event of each equipment.
C4_UptimeSincePrevious ==
    (MetricsComputed /\ DistinctEvents) =>
        \A i \in 1..Len(df) :
            IF Earlier(i) = {}
            THEN df[i].uptime = NaN /\ df[i].prev_end = NaT
            ELSE /\ df[i].prev_end = df[Preceding(i)].end
                 /\ df[i].uptime = Some(Val(df[i].start) - Val(df[Preceding(i)].end))

\* C4 witness: three events of one equipment uploaded out of start order; the
\* second starts 5 hours after the first ends, the third 18 hours after the
\* second ends.
C4_Witness ==
    /\ pc = "done"
    /\ Len(df) = 3
    /\ df[1].row # 1
    /\ df[1].equipment = df[3].equipment
    /\ df[1].uptime = NaN
    /\ df[2].uptime = Some(5)
    /\ df[3].uptime = Some(18)

\* The upload without the rows whose repair time is not positive.
WithoutDropped(up) ==
    [rows |-> SelectSeq(up.rows, RawValid), cols |-> up.cols, present |-> up.present]

\* C5: the events with a non-positive repair time contribute to nothing: the
\* metric table, the per-equipment MTBF, the MTTR and what is rendered are
\* those of a run on an upload that never held them, and no previous end is
\* the end of a dropped event.
C5_DroppedEventsInert ==
    MetricsComputed =>
        LET alt == Script(WithoutDropped(uploaded_file), master_df,
                          start_date, end_date, NoDf)
        IN  /\ alt.df = df
            /\ alt.mtbf_df = mtbf_df
            /\ alt.mttr_value = mttr_value
            /\ alt.pc = pc
            /\ alt.rendered = rendered
            /\ \A i \in 1..Len(df) :
                 NotNull(df[i].prev_end) =>
                     \E j \in 1..Len(df) :
                         /\ df[j].equipment = df[i].equipment
                         /\ df[j].end = df[i].prev_end
                         /\ Val(df[j].start) <= Val(df[i].start)

\* C5 witness: a zero-length event lies between two retained events of the
\* same equipment; the later one's gap is measured from the earlier one.
C5_Witness ==
    /\ pc = "done"
    /\ Len(df) = 2
    /\ Len(session_df.rows) = 3
    /\ \A r \in Range(session_df.rows) : r.equipment = df[1].equipment
    /\ \E r \in Range(session_df.rows) :
         /\ NotNull(r.end) /\ Val(r.end) = Val(r.start)
         /\ Val(r.start) > Val(df[1].start) /\ Val(r.start) < Val(df[2].start)
    /\ df[2].prev_end = df[1].end

\* What a run shows when it fails.
ErrorElems == {"error_missing_column", "exception", "error_master"}
ErrorShown == "error_missing_column" \in rendered \/ "exception" \in rendered

\* A required column is missing from the uploaded sheet.
RequiredMissing == uploaded_file.present /\ ~(RequiredCols \subseteq uploaded_file.cols)

\* The row of the sheet is an event whose start date lies in the timeframe.
InSelected(raw) ==
    /\ RawStartOk(raw)
    /\ Val(raw.sdate) >= start_date
    /\ Val(raw.sdate) <= end_date

\* The cached dataframe holds the rows of the sheet that are in the timeframe,
\* in sheet order, with their parsed timestamps.
CacheIsSelection ==
    /\ session_df.present
    /\ {r.row : r \in Range(session_df.rows)}
         = {i \in 1..Len(uploaded_file.rows) : InSelected(uploaded_file.rows[i])}
    /\ \A i, j \in 1..Len(session_df.rows) :
         i < j => session_df.rows[i].row < session_df.rows[j].row
    /\ \A r \in Range(session_df.rows) :
         LET raw == uploaded_file.rows[r.row]
         IN  /\ r.equipment = raw.equipment
             /\ r.start = Some(RawStart(raw))
             /\ r.end = IF RawEndOk(raw) THEN Some(RawEnd(raw)) ELSE NaT

\* C6 as stated: with any required column missing the run ends in an error,
\* renders no metric, chart or tile, and does not write the cached dataframe.
C6_HaltsBeforeCache ==
    RequiredMissing =>
        /\ ErrorShown
        /\ rendered \subseteq ErrorElems
        /\ ~session_df.present

\* C6 amended: with any required column missing the run ends in an error and
\* renders no metric, chart or tile; the cached dataframe is not written when
\* a split date/time column is missing, and is written with the date-filtered
\* table when only 'equipment' is missing.
C6_HaltsBeforeMetrics ==
    RequiredMissing =>
        /\ ErrorShown
        /\ rendered \subseteq ErrorElems
        /\ df = <<>>
        /\ IF DateCols \subseteq uploaded_file.cols
           THEN pc = "exc_merge" /\ CacheIsSelection
           ELSE pc = "stop_missing_column" /\ ~session_df.present

\* C6 witness: a sheet without one of the end columns, after the timeframe
\* was changed: the missing-column error, no cache.
C6_Witness ==
    /\ uploaded_file.present
    /\ "malfunct.end" \notin uploaded_file.cols
    /\ "equipment" \in uploaded_file.cols
    /\ uploaded_file.rows # <<>>
    /\ <<start_date, end_date>> # DefaultRange
    /\ pc = "stop_missing_column"
    /\ rendered = {"error_missing_column"}
    /\ ~session_df.present

\* The elements that depend on no optional column.
AlwaysElems ==
    {"caption", "metric_total_machines", "metric_breakdown_machines",
     "metric_total_breakdowns", "metric_mttr", "chart_status", "chart_repeated",
     "chart_repair_time", "chart_mttr", "chart_mtbf", "chart_reasons", "machine_tiles"}

\* C7: with every required column present, the master loaded and at least one
\* event retained, the run completes without an error and renders every
\* element that depends on no missing optional column.
C7_OptionalColumnsOmitted ==
    (/\ uploaded_file.present
     /\ RequiredCols \subseteq uploaded_file.cols
     /\ master_df.loaded
     /\ \E r \in Range(session_df.rows) : NotNull(r.end) /\ Val(r.end) > Val(r.start))
    => /\ pc = "done"
       /\ "exception" \notin rendered
       /\ AlwaysElems \subseteq rendered

\* The upload without the rows whose start cannot be parsed.
WithoutBadStart(up) ==
    [rows |-> SelectSeq(up.rows, RawStartOk), cols |-> up.cols, present |-> up.present]

\* C8: an event whose start cannot be parsed is in neither the cached
\* dataframe nor the metric table, whatever the timeframe, and the run is the
\* one the sheet without that event gives.
C8_UnparseableStartExcluded ==
    (uploaded_file.present /\ DateCols \subseteq uploaded_file.cols) =>
        LET alt == Script(WithoutBadStart(uploaded_file), master_df,
                          start_date, end_date, NoDf)
        IN  /\ \A r \in Range(session_df.rows) :
                 NotNull(r.start) /\ RawStartOk(uploaded_file.rows[r.row])
            /\ \A i \in 1..Len(df) :
                 NotNull(df[i].start) /\ RawStartOk(uploaded_file.rows[df[i].row])
            /\ alt.session_df = session_df
            /\ alt.df = df
            /\ alt.mtbf_df = mtbf_df
            /\ alt.mttr_value = mttr_value
            /\ alt.pc = pc
            /\ alt.rendered = rendered

\* C8 witness: a sheet with an unparseable start among events that are kept,
\* under a timeframe other than the default.
C8_Witness ==
    /\ pc = "done"
    /\ <<start_date, end_date>> = <<0, 0>>
    /\ \E r \in Range(uploaded_file.rows) : ~RawStartOk(r)
    /\ Len(df) = 2
    /\ Len(session_df.rows) = 2
    /\ Len(uploaded_file.rows) = 3

MasterUnique ==
    \A i, j \in 1..Len(master_df.rows) :
        master_df.rows[i].equipment = master_df.rows[j].equipment => i = j

HasMaster(q) == \E m \in Range(master_df.rows) : m.equipment = q

\* C9: the join keeps every date-filtered event, gives an event without a
\* master record null master attributes, and, when the master ids are unique,
\* has exactly the rows of the date-filtered table in the same order.
C9_LeftJoin ==
    MetricsComputed =>
        LET joined == MergeMaster(session_df.rows, master_df.rows)
        IN  /\ \A r \in Range(session_df.rows) :
                 \E x \in Range(joined) :
                     /\ x.row = r.row /\ x.equipment = r.equipment
                     /\ x.start = r.start /\ x.end = r.end
                     /\ (~HasMaster(r.equipment) => x.description = NaN)
            /\ \A x \in Range(joined) :
                 /\ \E r \in Range(session_df.rows) : r.row = x.row
                 /\ NotNull(x.description) =>
                        \E m \in Range(master_df.rows) :
                            m.equipment = x.equipment /\ m.description = Val(x.description)
            /\ MasterUnique =>
                 /\ Len(joined) = Len(session_df.rows)
                 /\ \A i \in 1..Len(joined) : joined[i].row = session_df.rows[i].row
            /\ \A r \in Range(session_df.rows) :
                 (NotNull(r.end) /\ Val(r.end) > Val(r.start)) =>
                     \E i \in 1..Len(df) :
                         /\ df[i].row = r.row
                         /\ (~HasMaster(r.equipment) => df[i].description = NaN)

\* C9 witness: an event of an equipment the master table does not list is in
\* the metric table with a null description.
C9_Witness ==
    /\ pc = "done"
    /\ master_df.rows # <<>>
    /\ Len(df) = 1
    /\ ~HasMaster(df[1].equipment)
    /\ df[1].description = NaN

\* C10: whenever a sheet with the date columns is uploaded, the cached
\* dataframe is exactly the sheet's events whose start date lies in the current
\* timeframe, both ends included, and the metric table holds exactly the
\* retained ones among them, whatever interactions came before.
C10_CacheIsCurrentSelection ==
    (uploaded_file.present /\ DateCols \subseteq uploaded_file.cols) =>
        /\ CacheIsSelection
        /\ MetricsComputed =>
             {df[i].row : i \in 1..Len(df)}
               = {i \in 1..Len(uploaded_file.rows) :
                    InSelected(uploaded_file.rows[i]) /\ RawValid(uploaded_file.rows[i])}

\* C10 witness: the timeframe was narrowed to day 1; of three uploaded events
\* the cache holds the one that starts on day 1.
C10_Witness ==
    /\ pc = "done"
    /\ <<start_date, end_date>> = <<1, 1>>
    /\ Len(uploaded_file.rows) = 3
    /\ \A r \in Range(uploaded_file.rows) : RawValid(r)
    /\ Len(session_df.rows) = 1
    /\ Val(session_df.rows[1].start) = 30

\* ------------------------------------------------------------ claim C11
\* The ids on the tiles of the Machine Overview tab.
TileIds == {machine_tiles[i].machine_id : i \in 1..Len(machine_tiles)}

MtbfOf(q) == mtbf_df[q]
LargestMtbf ==
    LET vals == {mtbf_df[q] : q \in {p \in DOMAIN mtbf_df : NotNull(mtbf_df[p])}}
    IN  IF vals = {} THEN NaN
        ELSE CHOOSE v \in vals : \A w \in vals : w[1] * v[2] <= v[1] * w[2]
Unscored(q) == IsNull(MtbfOf(q)) \/ IsNull(LargestMtbf) \/ LargestMtbf[1] <= 0
\* MTBF / largest MTBF * 100 compared with a whole number of percent.
PctAbove(q, n) == MtbfOf(q)[1] * LargestMtbf[2] * 100 > n * MtbfOf(q)[2] * LargestMtbf[1]
PctBelow(q, n) == MtbfOf(q)[1] * LargestMtbf[2] * 100 < n * MtbfOf(q)[2] * LargestMtbf[1]
TilesShown == page = "dashboard" /\ pc = "done"

\* C12: a tile is 'No Score' with health "N/A", MTBF text "N/A" and health
\* score -1 exactly when the machine's MTBF is null or the largest MTBF is null
\* or not positive; any other tile is 'Good' iff its percentage of the largest
\* MTBF is above 80, 'Fair' iff it is from 50 to 80, 'Bad' iff it is below 50;
\* and among scored tiles the machine with the largest MTBF is 'Good' at 100%.
C12_HealthClassification ==
    TilesShown =>
        \A i \in 1..Len(machine_tiles) :
            LET t == machine_tiles[i]
                q == t.machine_id
            IN  /\ (t.tag = "No Score") <=> Unscored(q)
                /\ Unscored(q) =>
                     /\ t.health_percent = NaN
                     /\ t.eta_text = NaN
                     /\ t.health_score = -1
                /\ ~Unscored(q) =>
                     /\ t.tag \in {"Good", "Fair", "Bad"}
                     /\ (t.tag = "Good") <=> PctAbove(q, 80)
                     /\ (t.tag = "Fair") <=> (~PctBelow(q, 50) /\ ~PctAbove(q, 80))
                     /\ (t.tag = "Bad") <=> PctBelow(q, 50)
                     /\ RatEq(MtbfOf(q), LargestMtbf) =>
                          (t.tag = "Good" /\ t.health_percent = Some(100))

\* C12 witness: two scored machines, one with the largest MTBF (25 hours,
\* 'Good' at 100%) and one at 72% of it (18 hours, 'Fair').
C12_Witness ==
    /\ TilesShown
    /\ \E i, j \in 1..Len(machine_tiles) :
        /\ machine_tiles[i].tag = "Good"
        /\ machine_tiles[i].health_percent = Some(100)
        /\ machine_tiles[i].mtbf = <<25, 1>>
        /\ machine_tiles[j].tag = "Fair"
        /\ machine_tiles[j].health_score = 72
        /\ machine_tiles[j].mtbf = <<18, 1>>

\* ------------------------------------------------------------ claim C13
\* The key a tile is ordered by under the chosen sort option.
ChosenKey(t) ==
    IF sort_by[1] = "Health" THEN <<t.health_score, 1>>
    ELSE IF sort_by[1] = "Breakdowns" THEN <<t.failures, 1>>
    ELSE t.mtbf
HighToLow == sort_by[2] = "High to Low"

\* C13: the tiles shown are the tiles computed, each once; any two tiles with
\* a key are in the order of the chosen key and direction; and every
\* 'No Score' tile comes after all scored tiles for 'High to Low' and before
\* all of them for 'Low to High'.
C13_TilesOrdered ==
    TilesShown =>
        /\ Len(machine_tiles) = Len(MachineTiles(df))
        /\ Range(machine_tiles) = Range(MachineTiles(df))
        /\ \A i, j \in 1..Len(machine_tiles) :
            i < j =>
                LET a == machine_tiles[i]
                    b == machine_tiles[j]
                IN  /\ (NotNull(ChosenKey(a)) /\ NotNull(ChosenKey(b))) =>
                         IF HighToLow
                         THEN ~FracLess(ChosenKey(a), ChosenKey(b))
                         ELSE ~FracLess(ChosenKey(b), ChosenKey(a))
                    /\ HighToLow => ~(a.tag = "No Score" /\ b.tag # "No Score")
                    /\ ~HighToLow => ~(a.tag # "No Score" /\ b.tag = "No Score")

\* ------------------------------------------------------------ claim C14
\* The later failure rows of row i of a table.
LaterFailures(rows, i) == {j \in (i + 1)..Len(rows) : rows[j].failure = Some(1)}

\* C14: a call of estimate_eta leaves the caller's table as it was; without a
\* 'failure' or a 'timestamp' column the table comes back with no column
\* added; otherwise every row with a later failure row gets the distance to
\* the nearest one, at least 1, as its estimate and its own timestamp plus that
\* many hours as predicted time, and every other row gets null in both.
C14_EstimateEta ==
    [][call'.fn = "estimate_eta" =>
        /\ call'.cols = call.cols
        /\ call'.rows = call.rows
        /\ result'.status = "returned"
        /\ Len(result'.rows) = Len(call.rows)
        /\ ("failure" \notin call.cols \/ "timestamp" \notin call.cols) =>
             /\ result'.cols = call.cols
             /\ result'.rows = call.rows
        /\ ("failure" \in call.cols /\ "timestamp" \in call.cols) =>
             /\ result'.cols = call.cols
                  \cup {"estimated_hours_to_failure", "predicted_failure_time"}
             /\ \A i \in 1..Len(call.rows) :
                  LET r == result'.rows[i]
                      later == LaterFailures(call.rows, i)
                  IN  /\ r.timestamp = call.rows[i].timestamp
                      /\ r.failure = call.rows[i].failure
                      /\ r.vibration = call.rows[i].vibration
                      /\ later = {} =>
                           /\ r.estimated_hours_to_failure = NaN
                           /\ r.predicted_failure_time = NaN
                      /\ later # {} =>
                           \E j \in later :
                               /\ \A k \in later : j <= k
                               /\ j - i >= 1
                               /\ r.estimated_hours_to_failure = Some(j - i)
                               /\ r.predicted_failure_time
                                    = Some(Val(call.rows[i].timestamp) + (j - i))
    ]_vars

\* C14 witness: a table whose second and third rows are failures: the first
\* row is one row away from the nearest of them, the last row has none ahead.
C14_Witness ==
    /\ call.fn = "estimate_eta"
    /\ {"failure", "timestamp"} \subseteq call.cols
    /\ Len(call.rows) = 3
    /\ call.rows[1].timestamp = Some(2)
    /\ call.rows[1].failure = Some(0)
    /\ call.rows[2].failure = Some(1)
    /\ call.rows[3].failure = Some(1)
    /\ result.rows[1].estimated_hours_to_failure = Some(1)
    /\ result.rows[1].predicted_failure_time = Some(3)
    /\ result.rows[3].estimated_hours_to_failure = NaN

\* ------------------------------------------------------------ claim C15
\* C15: every scored tile has a whole health score from 0 to 100, and so has
\* the width of its health bar, whatever the retained events are, events of
\* one equipment that overlap included.
C15_HealthScoreInRange ==
    TilesShown =>
        \A i \in 1..Len(machine_tiles) :
            machine_tiles[i].tag # "No Score" =>
                /\ machine_tiles[i].health_score \in 0..100
                /\ BarScore(machine_tiles[i].health_percent) \in 0..100

\* ------------------------------------------------------------ claim C16
\* C16: when the detail page was opened with 'View Details' and the master
\* table has no repeated id, the 'Total Breakdowns' it shows at its default
\* timeframe is the 'Breakdowns' count on the tile of the selected machine.
C16_BreakdownCountsAgree ==
    (page = "machine" /\ NotNull(selected_machine_id) /\ MasterUnique) =>
        \A i \in 1..Len(machine_tiles) :
            machine_tiles[i].machine_id = Val(selected_machine_id) =>
                /\ machine_pc = "done"
                /\ total_breakdowns = Some(machine_tiles[i].failures)

\* ------------------------------------------------------------ claim C17
\* A probability cell holds a number from 0 to 1.
InUnitInterval(x) == NotNull(x) /\ x[1] >= 0 /\ x[1] <= x[2]

\* C17: a call of estimate_failure_probability leaves the caller's table as it
\* was and returns one row per row of it, each with a failure probability from
\* 0 to 1; without a 'vibration' or a 'timestamp' column it returns the
\* fallback of probability 0 for every row instead of failing.
C17_FailureProbability ==
    [][call'.fn = "estimate_failure_probability" =>
        /\ call'.cols = call.cols
        /\ call'.rows = call.rows
        /\ result'.status = "returned"
        /\ Len(result'.rows) = Len(call.rows)
        /\ \A i \in 1..Len(result'.rows) :
             InUnitInterval(result'.rows[i].failure_probability)
        /\ ("vibration" \notin call.cols \/ "timestamp" \notin call.cols) =>
             \A i \in 1..Len(result'.rows) :
                 RatEq(result'.rows[i].failure_probability, <<0, 1>>)
    ]_vars

====
